---- MODULE Spec2Model ----
(***************************************************************************)
(* Email triage pipeline: the AI classification client                     *)
(* (server/services/openai.ts), the storage layer in its three variants    *)
(* (in-memory server/storage.ts, mongoose + fallback server/storage.js,    *)
(* drizzle + fallback unnamed/part_010, mongoose without read fallback     *)
(* unnamed/part_009) and the two EmailService implementations              *)
(* (server/services/email.js and unnamed/part_012).                        *)
(*                                                                         *)
(* Every `await` of an EmailService method is a suspension point: an       *)
(* invocation is a process whose pc names the await it is suspended at.    *)
(***************************************************************************)
EXTENDS Integers, Sequences, FiniteSets, TLC

VARIABLES
  svc,            \* which EmailService implementation serves the requests
  store,          \* which DatabaseStorage implementation is `storage`
  dbUp,           \* whether the configured backend answers
  width,          \* how many requests the server has in flight at most
  emails,         \* the emails table / Map, in insertion order
  responses,      \* the email_responses table / Map, in insertion order
  mockResponses,  \* this.mockResponses of the backend-backed storages
  nextEmailId,    \* this.nextEmailId / the backend's id sequence
  nextResponseId, \* this.nextResponseId / the backend's id sequence
  now,            \* Date.now(), in ticks after construction
  procs,          \* the invocations in flight, one record per request slot
  started,        \* number of processEmail invocations started so far
  ai,             \* the AI client under test: upstream reply and the result it gave
  rd              \* the storage read operations under test and their outcomes

vars == <<svc, store, dbUp, width, emails, responses, mockResponses, nextEmailId,
          nextResponseId, now, procs, started, ai, rd>>

-----------------------------------------------------------------------------
(* Bounds of the model *)

MaxProcs == 2        \* request slots (invocations that may overlap)
MaxProcessed == 1    \* processEmail invocations per behaviour
MaxResponses == 2    \* EmailResponse records created per behaviour
MaxClock == 1        \* ticks of Date.now() per behaviour
MaxStored == 2       \* createEmail calls made on the storage directly
MaxBulk == 2         \* emails of one bulk-process request

Procs == 1..MaxProcs

-----------------------------------------------------------------------------
(* Values *)

\* null / undefined of a nullable field is the empty tuple, a present value v is <<v>>
Null == <<>>
Some(v) == <<v>>
IsNull(x) == x = <<>>

\* An id keeps its JavaScript representation: a number or a string of digits,
\* a mongoose ObjectId (its hex string is the same value under mongoose casting),
\* or undefined.
Num(n) == <<"num", n>>
Str(n) == <<"str", n>>
Oid(n) == <<"oid", n>>
Undefined == <<"undefined", 0>>

\* String(id) / id.toString()
toString(id) == IF id[1] = "num" THEN Str(id[2]) ELSE id
\* parseInt(id)
parseInt(id) == IF id[1] = "str" THEN Num(id[2]) ELSE id

\* Date.now() as an id: far above every serial id
Epoch == 100
DateNow == Epoch + now

RECURSIVE InsertDesc(_, _, _)
\* one step of a stable sort, descending by the field `key`: x, which came later
\* in the input, goes after the elements whose key is >= its own
InsertDesc(x, sorted, key) ==
  IF sorted = <<>> THEN <<x>>
  ELSE IF Head(sorted)[key] >= x[key]
       THEN <<Head(sorted)>> \o InsertDesc(x, Tail(sorted), key)
       ELSE <<x>> \o sorted

RECURSIVE SortDesc(_, _)
\* Array.prototype.sort((a, b) => b[key] - a[key]): stable, descending
SortDesc(s, key) ==
  IF s = <<>> THEN <<>>
  ELSE InsertDesc(s[Len(s)], SortDesc(SubSeq(s, 1, Len(s) - 1), key), key)

-----------------------------------------------------------------------------
(* AI classification client: server/services/openai.ts *)

\* What a function gives its caller: a returned value or a raised error
Return(v) == [raised |-> FALSE, val |-> v]
Throw == [raised |-> TRUE]

\* An upstream outcome of openai.chat.completions.create + JSON.parse:
\*   kind "error"       the provider call rejects (network / provider error)
\*   kind "unparseable" the content is not JSON (JSON.parse throws), or is JSON
\*                      null (reading a field of it throws)
\*   kind "json"        a JSON object; an absent (or empty, falsy) field is ""
\*                      and an absent (or zero) confidence is 0
\* Confidences are in hundredths: 90 is 0.90, 250 is 2.5, -50 is -0.5.
UpstreamKinds == {"error", "unparseable", "json"}
RawConfidences == {-50, 0, 90, 250}
SentimentFields == {"positive", "negative", "neutral", "mixed", ""}
PriorityFields == {"urgent", "normal", "high", ""}
CategoryFields == {"Billing Questions", ""}
ResponseFields == {"draftA", "draftB", ""}

SentimentUpstream ==
  [kind : UpstreamKinds, sentiment : SentimentFields, confidence : RawConfidences,
   reasoning : {"because", ""}]
PriorityUpstream ==
  [kind : UpstreamKinds, priority : PriorityFields, confidence : RawConfidences,
   keywords : {"kw", ""}]
InformationUpstream ==
  [kind : UpstreamKinds, category : CategoryFields, phoneNumbers : {"555", ""}]
ResponseUpstream ==
  [kind : UpstreamKinds, response : ResponseFields, confidence : RawConfidences,
   tone : {"warm", ""}]

\* a || b on strings: b when a is falsy (absent or "")
OrElse(a, b) == IF a = "" THEN b ELSE a

\* a || b on numbers: b when a is falsy (absent or 0)
OrElseNum(a, b) == IF a = 0 THEN b ELSE a

\* Math.max(0, Math.min(1, c)), in hundredths
Clamp01(c) == IF c < 0 THEN 0 ELSE IF c > 100 THEN 100 ELSE c

\* the body of a try block that awaits the provider and parses its content
TryParse(u, value) == IF u.kind = "json" THEN Return(value) ELSE Throw

\* a catch block that lets the error through
Rethrows(attempt, fallback) == attempt

\* try { ... } catch (error) { return fallback }
CatchReturn(attempt, fallback) == IF attempt.raised THEN Return(fallback) ELSE attempt

SentimentDefault ==
  [sentiment |-> "neutral", confidence |-> 50, reasoning |-> "Error during analysis"]

analyzeSentiment(u) ==
  CatchReturn(
    TryParse(u, [sentiment |-> OrElse(u.sentiment, "neutral"),
                 confidence |-> Clamp01(OrElseNum(u.confidence, 50)),
                 reasoning |-> OrElse(u.reasoning, "Unable to determine reasoning")]),
    SentimentDefault)

PriorityDefault == [priority |-> "normal", confidence |-> 50, keywords |-> ""]

analyzePriority(u) ==
  CatchReturn(
    TryParse(u, [priority |-> OrElse(u.priority, "normal"),
                 confidence |-> Clamp01(OrElseNum(u.confidence, 50)),
                 keywords |-> u.keywords]),
    PriorityDefault)

InformationDefault == [category |-> "General Inquiry", phoneNumbers |-> ""]

extractInformation(u) ==
  CatchReturn(
    TryParse(u, [category |-> OrElse(u.category, "General Inquiry"),
                 phoneNumbers |-> u.phoneNumbers]),
    InformationDefault)

CannedResponse == "Thank you for contacting us. We have received your email and will respond within 24 hours. If this is urgent, please call our support line."

ResponseDefault == [response |-> CannedResponse, tone |-> "professional", confidence |-> 50]

\* toneInstruction of generateResponse
toneInstruction(sentiment, priority) ==
  IF sentiment = "negative" THEN "empathetic and apologetic while being solution-focused"
  ELSE IF priority = "urgent"
       THEN "urgent yet reassuring, acknowledging the importance of their request"
       ELSE "professional and helpful"

generateResponse(u, sentiment, priority) ==
  CatchReturn(
    TryParse(u, [response |-> OrElse(u.response,
                                "Thank you for your email. We will get back to you shortly."),
                 tone |-> OrElse(u.tone, toneInstruction(sentiment, priority)),
                 confidence |-> Clamp01(OrElseNum(u.confidence, 80))]),
    ResponseDefault)

-----------------------------------------------------------------------------
(* Storage layer: the state and what the four DatabaseStorage classes do with it *)

\* `store` names the file whose DatabaseStorage is in use
InMemory == "storage_ts"       \* server/storage.ts: Maps seeded with the samples
Mongo == "storage_js"          \* server/storage.js: mongoose, fallback in every method
Drizzle == "part_010"          \* unnamed/part_010: drizzle, fallback in every method
MongoNoFallback == "part_009"  \* unnamed/part_009: mongoose, some methods without fallback
Backed == {Mongo, Drizzle, MongoNoFallback}
Mongoose == {Mongo, MongoNoFallback}

\* `svc` names the file whose EmailService is in use
EmailJs == "email_js"          \* server/services/email.js
Part012 == "part_012"          \* unnamed/part_012

\* Text is a tuple of characters, so that toLowerCase and includes are computed
Chars == {"a", "A", "b"}
toLowerCase(t) == [i \in DOMAIN t |-> IF t[i] = "A" THEN "a" ELSE t[i]]
\* String.prototype.includes
includes(t, q) ==
  \E i \in 0..(Len(t) - Len(q)) : \A j \in 1..Len(q) : t[i + j] = q[j]

\* getSampleEmails(): the five seed emails (texts abbreviated to two characters;
\* receivedAt is hours before construction: 2, 4, 6, 8 and 12 hours ago)
getSampleEmails ==
  << [id |-> Num(1), sender |-> <<"a">>, subject |-> <<"A", "b">>, body |-> <<"b", "a">>,
      priority |-> "urgent", sentiment |-> "negative",
      category |-> Some("Technical Issue"), isProcessed |-> FALSE, receivedAt |-> -2],
     [id |-> Num(2), sender |-> <<"b">>, subject |-> <<"b", "b">>, body |-> <<"a", "a">>,
      priority |-> "normal", sentiment |-> "positive",
      category |-> Some("Customer Feedback"), isProcessed |-> TRUE, receivedAt |-> -4],
     [id |-> Num(3), sender |-> <<"a">>, subject |-> <<"b", "a">>, body |-> <<"b", "b">>,
      priority |-> "normal", sentiment |-> "neutral",
      category |-> Some("Business Development"), isProcessed |-> FALSE, receivedAt |-> -6],
     [id |-> Num(4), sender |-> <<"b">>, subject |-> <<"a", "b">>, body |-> <<"A", "a">>,
      priority |-> "urgent", sentiment |-> "negative",
      category |-> Some("Financial"), isProcessed |-> FALSE, receivedAt |-> -8],
     [id |-> Num(5), sender |-> <<"a">>, subject |-> <<"b", "A">>, body |-> <<"a", "b">>,
      priority |-> "normal", sentiment |-> "positive",
      category |-> Some("HR/Internal"), isProcessed |-> TRUE, receivedAt |-> -12] >>

\* the storage state an operation leaves behind
Same ==
  [emails |-> emails, responses |-> responses, mockResponses |-> mockResponses,
   nextEmailId |-> nextEmailId, nextResponseId |-> nextResponseId]

\* an operation's outcome: what the caller gets and the storage state afterwards
Gives(outcome, st) == [raised |-> outcome.raised,
                       val |-> IF outcome.raised THEN Null ELSE outcome.val,
                       st |-> st]

\* Array.prototype.slice(from, to)
Slice(s, from, to) ==
  LET hi == IF to > Len(s) THEN Len(s) ELSE to
  IN IF from >= hi THEN <<>> ELSE SubSeq(s, from + 1, hi)

\* the position of the record with the given id, 0 when there is none
IndexOf(s, id) ==
  IF \E i \in 1..Len(s) : s[i].id = id
  THEN CHOOSE i \in 1..Len(s) : s[i].id = id
  ELSE 0

\* mongoose casts an id to ObjectId; anything that is no ObjectId (hex string) is a CastError
CastsToObjectId(id) == id[1] = "oid"

\* the id a backend query compares with: mongoose casts, drizzle code uses parseInt(id)
BackendKey(id) == IF store \in Mongoose THEN id ELSE parseInt(id)

\* whether the backend answers a query on this id (a mongoose CastError rejects it)
BackendAnswers(id) == dbUp /\ (store \in Mongoose => CastsToObjectId(id))

\* the mongoose emailSchema validators (shared/schema.js): enum on priority and sentiment
EmailValidates(data) ==
  store \in Mongoose =>
    /\ data.priority \in {"urgent", "normal"}
    /\ data.sentiment \in {"positive", "negative", "neutral"}

\* the id the backend assigns to a new row / document
BackendId(n) == IF store \in Mongoose THEN Oid(n) ELSE Num(n)

\* { ...record, ...updates }: the fields of updates override those of record
Merge(record, updates) ==
  [f \in DOMAIN record |-> IF f \in DOMAIN updates THEN updates[f] ELSE record[f]]

\* the Email a storage builds from the data it is given
\* (storage.ts: category || null, isProcessed || false)
EmailRecord(id, data) ==
  [id |-> id, sender |-> data.sender, subject |-> data.subject, body |-> data.body,
   priority |-> data.priority, sentiment |-> data.sentiment,
   category |-> IF data.category = "" THEN Null ELSE Some(data.category),
   isProcessed |-> data.isProcessed, receivedAt |-> data.receivedAt]

\* createEmail of the backend-backed storages, catch branch: a mock email that is
\* returned and stored nowhere (part_009 gives it an _id and no id)
MockEmail(data) ==
  EmailRecord(IF store = MongoNoFallback THEN Undefined ELSE Num(DateNow), data)

\* a sample as the fallback branch finds it: part_009's samples have _id and no id
FallbackSample(i) ==
  IF store = MongoNoFallback THEN [getSampleEmails[i] EXCEPT !.id = Undefined]
  ELSE getSampleEmails[i]

getEmailById(id) ==
  LET inMemory == IndexOf(emails, parseInt(id))
      inBackend == IndexOf(emails, BackendKey(id))
      sampleIdx == IF \E i \in 1..5 : toString(getSampleEmails[i].id) = id
                   THEN CHOOSE i \in 1..5 : toString(getSampleEmails[i].id) = id
                   ELSE 0
  IN IF store = InMemory
     THEN Gives(Return(IF inMemory = 0 THEN Null ELSE Some(emails[inMemory])), Same)
     ELSE IF BackendAnswers(id)
          THEN Gives(Return(IF inBackend = 0 THEN Null ELSE Some(emails[inBackend])), Same)
          ELSE Gives(Return(IF sampleIdx = 0 THEN Null
                            ELSE Some(FallbackSample(sampleIdx))), Same)

createEmail(data) ==
  LET stored(id) == [Same EXCEPT !.emails = Append(emails, EmailRecord(id, data)),
                                 !.nextEmailId = nextEmailId + 1]
  IN IF store = InMemory
     THEN Gives(Return(EmailRecord(Num(nextEmailId), data)), stored(Num(nextEmailId)))
     ELSE IF dbUp /\ EmailValidates(data)
          THEN Gives(Return(EmailRecord(BackendId(nextEmailId), data)),
                     stored(BackendId(nextEmailId)))
          ELSE Gives(Return(MockEmail(data)), Same)

updateEmail(id, updates) ==
  LET key == IF store = InMemory THEN parseInt(id) ELSE BackendKey(id)
      idx == IndexOf(emails, key)
      updated == Merge(emails[idx], updates)
      sampleIdx == IF \E i \in 1..5 : toString(getSampleEmails[i].id) = id
                   THEN CHOOSE i \in 1..5 : toString(getSampleEmails[i].id) = id
                   ELSE 0
      write == Gives(Return(updated), [Same EXCEPT !.emails[idx] = updated])
  IN IF store = InMemory
     THEN IF idx = 0 THEN Gives(Throw, Same) ELSE write
     ELSE IF BackendAnswers(id) /\ idx # 0 THEN write
     ELSE IF store = MongoNoFallback THEN Gives(Throw, Same)
     ELSE IF sampleIdx = 0 THEN Gives(Throw, Same)
     ELSE Gives(Return(Merge(getSampleEmails[sampleIdx], updates)), Same)

\* memory: responseData.x || null / || false, id from the counter, createdAt now
MemoryResponse(data) ==
  [id |-> Num(nextResponseId), emailId |-> data.emailId,
   generatedResponse |-> data.generatedResponse, isEdited |-> data.isEdited,
   finalResponse |-> data.finalResponse, sentAt |-> data.sentAt,
   confidence |-> IF data.confidence = 0 THEN Null ELSE Some(data.confidence),
   createdAt |-> now]

\* backend: the row / document the insert returns (the emailId column is an
\* integer in drizzle and an ObjectId in mongoose)
BackendResponse(data) ==
  [id |-> BackendId(nextResponseId), emailId |-> BackendKey(data.emailId),
   generatedResponse |-> data.generatedResponse, isEdited |-> data.isEdited,
   finalResponse |-> data.finalResponse, sentAt |-> data.sentAt,
   confidence |-> Some(data.confidence), createdAt |-> now]

\* catch branch: { id: Date.now(), ...responseData, createdAt: new Date() }
\* (part_009 uses Date.now().toString() for the id)
MockResponse(data) ==
  [id |-> IF store = MongoNoFallback THEN Str(DateNow) ELSE Num(DateNow),
   emailId |-> data.emailId,
   generatedResponse |-> data.generatedResponse, isEdited |-> data.isEdited,
   finalResponse |-> data.finalResponse, sentAt |-> data.sentAt,
   confidence |-> Some(data.confidence), createdAt |-> now]

\* the key createEmailResponse files a mock response under
\* (storage.js, part_010: emailId?.toString(); part_009: emailId as given)
MockKey(emailId) == IF store = MongoNoFallback THEN emailId ELSE toString(emailId)

\* whether the backend accepts the insert: mongoose validates the document
\* (emailId casts to ObjectId, generatedResponse is required, confidence within
\* 0..100); postgres checks the foreign key email_id -> emails.id
ResponseInsertAccepted(data) ==
  /\ dbUp
  /\ store \in Mongoose =>
       /\ CastsToObjectId(data.emailId)
       /\ data.generatedResponse # ""
       /\ data.confidence \in 0..100
  /\ store = Drizzle => IndexOf(emails, parseInt(data.emailId)) # 0

\* a lookup that finds no response, whatever is stored
FindsNoResponses(emailId) == Gives(Return(<<>>), Same)

getResponsesByEmailId(emailId) ==
  LET key == IF store = InMemory THEN parseInt(emailId) ELSE BackendKey(emailId)
      found == SortDesc(SelectSeq(responses, LAMBDA r : r.emailId = key), "createdAt")
  IN IF store = InMemory THEN Gives(Return(found), Same)
     ELSE IF BackendAnswers(emailId) THEN Gives(Return(found), Same)
     ELSE IF emailId \in DOMAIN mockResponses
          THEN Gives(Return(<<mockResponses[emailId]>>), Same)
          ELSE Gives(Return(<<>>), Same)

createEmailResponse(data) ==
  LET stored(r) == Gives(Return(r), [Same EXCEPT !.responses = Append(responses, r),
                                                 !.nextResponseId = nextResponseId + 1])
      key == MockKey(data.emailId)
      mock == MockResponse(data)
  IN IF store = InMemory THEN stored(MemoryResponse(data))
     ELSE IF ResponseInsertAccepted(data) THEN stored(BackendResponse(data))
     ELSE Gives(Return(mock),
                [Same EXCEPT !.mockResponses =
                   [k \in DOMAIN mockResponses \cup {key} |->
                      IF k = key THEN mock ELSE mockResponses[k]]])

\* an update that also replaces the draft by the text that was sent
OverwritesDraft(id, updates) ==
  LET idx == IndexOf(responses, parseInt(id))
      updated == [Merge(responses[idx], updates) EXCEPT
                    !.generatedResponse = updates.finalResponse[1]]
  IN IF idx = 0 THEN Gives(Throw, Same)
     ELSE Gives(Return(updated), [Same EXCEPT !.responses[idx] = updated])

updateEmailResponse(id, updates) ==
  LET key == IF store = InMemory THEN parseInt(id) ELSE BackendKey(id)
      idx == IndexOf(responses, key)
      updated == Merge(responses[idx], updates)
      write == Gives(Return(updated), [Same EXCEPT !.responses[idx] = updated])
      synthesized == [id |-> IF store = Drizzle THEN parseInt(id) ELSE id,
                      updates |-> updates, createdAt |-> now]
  IN IF store = InMemory
     THEN IF idx = 0 THEN Gives(Throw, Same) ELSE write
     ELSE IF BackendAnswers(id) /\ idx # 0 THEN write
     ELSE IF store = MongoNoFallback THEN Gives(Throw, Same)
     ELSE Gives(Return(synthesized), Same)

\* array.filter(test).length
Count(s, Test(_)) == Len(SelectSeq(s, Test))

\* whether a read of the backend-backed storages is answered by the backend
ReadsBackend == store \in Backed /\ dbUp

\* the methods of part_009 that have no try/catch around the query
NoFallbackReads == {"getEmailsByPriority", "getEmailsBySentiment", "searchEmails"}

\* a list read: memory and backend sort by receivedAt descending; the fallback
\* filters the samples as they are; part_009 lets the failed query raise
ListRead(method, Test(_)) ==
  IF store = InMemory \/ ReadsBackend
  THEN Gives(Return(SortDesc(SelectSeq(emails, Test), "receivedAt")), Same)
  ELSE IF store = MongoNoFallback /\ method \in NoFallbackReads
       THEN Gives(Throw, Same)
       ELSE Gives(Return(SelectSeq(getSampleEmails, Test)), Same)

getEmails(limit, offset) ==
  LET all == ListRead("getEmails", LAMBDA e : TRUE)
  IN Gives(Return(Slice(all.val, offset, offset + limit)), Same)

getEmailsByPriority(priority) ==
  ListRead("getEmailsByPriority", LAMBDA e : e.priority = priority)

getEmailsBySentiment(sentiment) ==
  ListRead("getEmailsBySentiment", LAMBDA e : e.sentiment = sentiment)

searchEmails(query) ==
  LET lowerQuery == toLowerCase(query)
  IN ListRead("searchEmails",
              LAMBDA e : \/ includes(toLowerCase(e.subject), lowerQuery)
                         \/ includes(toLowerCase(e.body), lowerQuery)
                         \/ includes(toLowerCase(e.sender), lowerQuery))

\* responses with sentAt !== null && sentAt !== undefined
SentResponses == SelectSeq(responses, LAMBDA r : ~IsNull(r.sentAt))

\* EmailResponse.distinct('emailId', { sentAt: { $ne: null } })
DistinctSentEmailIds == {SentResponses[i].emailId : i \in 1..Len(SentResponses)}

\* Math.floor(sampleEmails.length * 0.6)
SampleResolved == (Len(getSampleEmails) * 6) \div 10

getEmailStats ==
  LET totalEmails == Len(emails)
      urgentEmails == Count(emails, LAMBDA e : e.priority = "urgent")
      resolvedEmails == IF store \in Mongoose THEN Cardinality(DistinctSentEmailIds)
                        ELSE Len(SentResponses)
      sampleUrgent == Count(getSampleEmails, LAMBDA e : e.priority = "urgent")
  IN IF store = InMemory \/ ReadsBackend
     THEN Gives(Return([totalEmails |-> totalEmails, urgentEmails |-> urgentEmails,
                        resolvedEmails |-> resolvedEmails,
                        pendingEmails |-> totalEmails - resolvedEmails]), Same)
     ELSE Gives(Return([totalEmails |-> Len(getSampleEmails),
                        urgentEmails |-> sampleUrgent,
                        resolvedEmails |-> SampleResolved,
                        pendingEmails |-> Len(getSampleEmails) - SampleResolved]), Same)

\* Math.round((count / total) * 100)
Percent(count, total) == (200 * count + total) \div (2 * total)

getSentimentDistribution ==
  LET total == Len(emails)
      n(sentiment) == Count(emails, LAMBDA e : e.sentiment = sentiment)
  IN IF store = InMemory \/ ReadsBackend
     THEN IF total = 0
          THEN Gives(Return([positive |-> 0, negative |-> 0, neutral |-> 0]), Same)
          ELSE Gives(Return([positive |-> Percent(n("positive"), total),
                             negative |-> Percent(n("negative"), total),
                             neutral |-> Percent(n("neutral"), total)]), Same)
     ELSE Gives(Return([positive |-> 45, negative |-> 25, neutral |-> 30]), Same)

RECURSIVE Categories(_)
\* the keys of categoryMap in insertion order: the non-null categories by first occurrence
Categories(s) ==
  IF s = <<>> THEN <<>>
  ELSE LET before == Categories(SubSeq(s, 1, Len(s) - 1))
           c == s[Len(s)].category
       IN IF IsNull(c) \/ \E i \in 1..Len(before) : before[i] = c[1]
          THEN before
          ELSE Append(before, c[1])

getCategoryBreakdown ==
  LET cats == Categories(emails)
      entries == [i \in 1..Len(cats) |->
                    [category |-> cats[i],
                     count |-> Count(emails, LAMBDA e : e.category = Some(cats[i]))]]
  IN IF store = InMemory \/ ReadsBackend
     THEN Gives(Return(SortDesc(entries, "count")), Same)
     ELSE Gives(Return(<< [category |-> "Technical Issue", count |-> 12],
                          [category |-> "Customer Feedback", count |-> 8],
                          [category |-> "Business Development", count |-> 6],
                          [category |-> "Financial", count |-> 4],
                          [category |-> "HR/Internal", count |-> 3] >>), Same)

-----------------------------------------------------------------------------
(* EmailService: server/services/email.js and unnamed/part_012 *)

\* the upstream outcomes the pipeline is run against
PipelineSentiment ==
  {u \in SentimentUpstream :
     /\ u.confidence = 90 /\ u.reasoning = "because"
     /\ u.kind \in {"json", "error"}
     /\ u.sentiment \in {"mixed", ""}
     /\ u.kind = "error" <=> u.sentiment = ""}
PipelinePriority ==
  {u \in PriorityUpstream :
     /\ u.confidence = 90 /\ u.keywords = "kw"
     /\ u.kind \in {"json", "error"}
     /\ u.priority \in {"urgent", "high", ""}
     /\ u.kind = "error" <=> u.priority = ""}
PipelineInformation ==
  {u \in InformationUpstream :
     /\ u.phoneNumbers = "555"
     /\ u.kind \in {"json", "error"}
     /\ u.category = ""}
PipelineResponse ==
  {u \in ResponseUpstream :
     /\ u.confidence \in {90, -50} /\ u.tone = "warm"
     /\ u.kind \in {"json", "error"}
     /\ u.kind = "error" => u.confidence = 90
     /\ u.response = "draftA"}

\* the receivedAt a request carries: an hour before construction
ReceivedAts == {-1}

\* what the operator may send as the final text
FinalTexts == {"draftA", "edited"}

\* fallbackResponse of generateResponseForEmail's catch block
FallbackResponse == "Dear Customer, Thank you for reaching out to us. [...] Best regards, Support Team"

\* a request slot with no invocation
Idle ==
  [op |-> "idle", pc |-> "idle", emailId |-> Undefined, finalResponse |-> "",
   receivedAt |-> 0, sentiment |-> Null, priority |-> Null, information |-> Null,
   email |-> Null, draft |-> Null, existing |-> Null, ret |-> Null,
   ai |-> 0, created |-> 0, alone |-> TRUE, prev |-> Null,
   before |-> 0, sentBefore |-> FALSE, resolvedBefore |-> 0]

Active(q) == procs[q].pc \notin {"idle", "done"}
Free(p) == ~Active(p)

\* invocations in flight that may still create an EmailResponse
Creators == {q \in Procs : Active(q)}

\* the bound on created responses leaves room for one more creator
RoomForResponse ==
  Len(responses) + Cardinality(DOMAIN mockResponses) + Cardinality(Creators) < MaxResponses

Apply(st) ==
  /\ emails' = st.emails
  /\ responses' = st.responses
  /\ mockResponses' = st.mockResponses
  /\ nextEmailId' = st.nextEmailId
  /\ nextResponseId' = st.nextResponseId

Config == <<svc, store, dbUp, width>>
Storage == <<emails, responses, mockResponses, nextEmailId, nextResponseId>>

\* every EmailResponse the storage holds, mock responses included
AllResponses ==
  {responses[i] : i \in 1..Len(responses)} \cup {mockResponses[k] : k \in DOMAIN mockResponses}

\* the stored responses of the email a request names by the string id
ResponsesOf(id) == {r \in AllResponses : toString(r.emailId) = id}
HasSent(id) == \E r \in ResponsesOf(id) : ~IsNull(r.sentAt)
Lab == <<ai, rd>>

\* the invocation that has returned with nothing overlapping it and nothing
\* started since, if there is one
LastAlone == {q \in Procs : procs[q].pc = "done" /\ procs[q].alone}

\* an invocation starts in the first free slot: whatever else is in flight now
\* overlaps with it, and the results of the invocations that have returned are gone
Begin(p, rec) ==
  /\ Free(p) /\ \A q \in Procs : q < p => Active(q)
  /\ Cardinality(Creators) < width
  /\ procs' = [q \in Procs |->
                 IF q = p
                 THEN [rec EXCEPT !.alone = (Creators = {}),
                                  !.before = Cardinality(ResponsesOf(rec.emailId)),
                                  !.sentBefore = HasSent(rec.emailId),
                                  !.resolvedBefore = getEmailStats.val.resolvedEmails]
                 ELSE IF Active(q) THEN [procs[q] EXCEPT !.alone = FALSE]
                 ELSE Idle]

\* slot p moves on, within its invocation
Step(p, rec) == procs' = [procs EXCEPT ![p] = rec]

\* slot p's invocation ends with the given outcome; its locals are gone
Finish(p, rec, outcome) ==
  procs' = [procs EXCEPT ![p] =
              [rec EXCEPT !.pc = "done", !.ret = Some(outcome),
                          !.receivedAt = 0, !.sentiment = Null, !.information = Null,
                          !.draft = Null, !.existing = Null]]

\* the ids a request may name, as the strings of the URL: seed email 1 and the
\* emails processEmail stored
Targets ==
  {Str(1)}
  \cup {toString(emails[i].id) : i \in {j \in 1..Len(emails) : emails[j].id \notin
                                          {Num(2), Num(3), Num(4), Num(5)}}}

(* processEmail(sender, subject, body, receivedAt = new Date()) *)

ProcessEmailStart(p) ==
  /\ started < MaxProcessed
  /\ RoomForResponse
  /\ \E receivedAt \in ReceivedAts :
       Begin(p, [Idle EXCEPT !.op = "processEmail", !.pc = "analyzing",
                             !.receivedAt = receivedAt])
  /\ started' = started + 1
  /\ UNCHANGED <<Config, Storage, now, Lab>>

\* an error reaches the end of the try block: email.js rethrows it wrapped,
\* part_012 goes on to store a basic record
Caught(p, rec) ==
  IF svc = EmailJs THEN Finish(p, rec, Throw)
  ELSE Step(p, [rec EXCEPT !.pc = "catch"])

\* one of the three promises of Promise.all settles; a rejection rejects
\* Promise.all at once and control passes to the catch block
Settle(p, field, outcome) ==
  /\ procs[p].op = "processEmail" /\ procs[p].pc = "analyzing"
  /\ IsNull(procs[p][field])
  /\ IF outcome.raised
     THEN Caught(p, procs[p])
     ELSE Step(p, [procs[p] EXCEPT ![field] = Some(outcome.val)])
  /\ UNCHANGED <<Config, Storage, now, started, Lab>>

SentimentSettles(p) == \E u \in PipelineSentiment : Settle(p, "sentiment", analyzeSentiment(u))
PrioritySettles(p) == \E u \in PipelinePriority : Settle(p, "priority", analyzePriority(u))
InformationSettles(p) ==
  \E u \in PipelineInformation : Settle(p, "information", extractInformation(u))

\* a record that falls back to the default priority when the sentiment analysis failed
emailDataAllOrNothing(rec) ==
  [sender |-> <<"a">>, subject |-> <<"a", "b">>, body |-> <<"b">>,
   receivedAt |-> rec.receivedAt,
   priority |-> IF rec.sentiment[1] = SentimentDefault THEN "normal"
                ELSE rec.priority[1].priority,
   sentiment |-> rec.sentiment[1].sentiment,
   category |-> rec.information[1].category,
   isProcessed |-> TRUE]

\* emailData of processEmail (extractedInfo carries no decision and is left out)
emailData(rec) ==
  [sender |-> <<"a">>, subject |-> <<"a", "b">>, body |-> <<"b">>,
   receivedAt |-> rec.receivedAt,
   priority |-> rec.priority[1].priority,
   sentiment |-> rec.sentiment[1].sentiment,
   category |-> rec.information[1].category,
   isProcessed |-> TRUE]

\* basicEmailData of part_012's catch block
basicEmailData(rec) ==
  [sender |-> <<"a">>, subject |-> <<"a", "b">>, body |-> <<"b">>,
   receivedAt |-> rec.receivedAt,
   priority |-> "normal", sentiment |-> "neutral", category |-> "General",
   isProcessed |-> FALSE]

\* !!generatedResponse
Truthy(text) == ~IsNull(text) /\ text[1] # ""

\* a view that reports a response whatever was drafted
ViewAlwaysWithResponse(email, generatedResponse) ==
  Return([id |-> email.id, priority |-> email.priority, sentiment |-> email.sentiment,
          category |-> email.category, hasResponse |-> TRUE,
          generatedResponse |-> generatedResponse])

\* the object processEmail returns. email.js: category || "General Inquiry" and
\* id as stored; part_012: id: email.id.toString(), a TypeError when id is undefined
ProcessedView(email, generatedResponse) ==
  IF svc = Part012 /\ email.id = Undefined THEN Throw
  ELSE Return([id |-> IF svc = Part012 THEN toString(email.id) ELSE email.id,
               priority |-> email.priority, sentiment |-> email.sentiment,
               category |-> IF svc = EmailJs /\ IsNull(email.category)
                            THEN Some("General Inquiry") ELSE email.category,
               hasResponse |-> Truthy(generatedResponse),
               generatedResponse |-> generatedResponse])

\* the comparator of getEmailsWithResponses: negative when a goes before b
UrgentThenNewest(a, b) ==
  IF a.priority = "urgent" /\ b.priority # "urgent" THEN -1
  ELSE IF b.priority = "urgent" /\ a.priority # "urgent" THEN 1
  ELSE b.receivedAt - a.receivedAt

RECURSIVE InsertUrgentFirst(_, _)
\* one step of the stable sort: x, which came later in the input, goes after the
\* elements the comparator does not put behind it
InsertUrgentFirst(x, sorted) ==
  IF sorted = <<>> THEN <<x>>
  ELSE IF UrgentThenNewest(Head(sorted), x) <= 0
       THEN <<Head(sorted)>> \o InsertUrgentFirst(x, Tail(sorted))
       ELSE <<x>> \o sorted

\* a list that is returned in the order the storage gave it
LeftAsRead(s) == s

RECURSIVE SortUrgentFirst(_)
\* emailsWithResponses.sort(comparator)
SortUrgentFirst(s) ==
  IF s = <<>> THEN <<>>
  ELSE InsertUrgentFirst(s[Len(s)], SortUrgentFirst(SubSeq(s, 1, Len(s) - 1)))

\* one element of getEmailsWithResponses: email.id?.toString() || '' is looked up,
\* and an email without id gets Date.now().toString() as its id
EmailWithResponses(email) ==
  LET found == IF email.id = Undefined THEN <<>>
               ELSE getResponsesByEmailId(toString(email.id)).val
  IN [id |-> IF email.id = Undefined THEN Str(DateNow) ELSE toString(email.id),
      sender |-> email.sender, subject |-> email.subject, body |-> email.body,
      receivedAt |-> email.receivedAt, priority |-> email.priority,
      sentiment |-> email.sentiment,
      category |-> IF IsNull(email.category) \/ email.category = Some("")
                   THEN Some("General Inquiry") ELSE email.category,
      hasResponse |-> Len(found) > 0,
      generatedResponse |-> IF found = <<>> THEN Null
                            ELSE Some(found[1].generatedResponse)]

\* getEmailsWithResponses(limit, offset): a failed read gives the empty list
getEmailsWithResponses(limit, offset) ==
  LET page == getEmails(limit, offset)
  IN IF page.raised THEN <<>>
     ELSE SortUrgentFirst([i \in 1..Len(page.val) |-> EmailWithResponses(page.val[i])])

\* Promise.all has resolved: storage.createEmail(emailData); a normal email is
\* returned right away, an urgent one goes on to generateResponse
ProcessEmailCreate(p) ==
  LET rec == procs[p]
      r == createEmail(emailData(rec))
      got == [rec EXCEPT !.email = Some(r.val)]
      view == ProcessedView(r.val, Null)
  IN /\ rec.op = "processEmail" /\ rec.pc = "analyzing"
     /\ ~IsNull(rec.sentiment) /\ ~IsNull(rec.priority) /\ ~IsNull(rec.information)
     /\ Apply(r.st)
     /\ IF r.raised THEN Caught(p, rec)
        ELSE IF rec.priority[1].priority = "urgent"
             THEN Step(p, [got EXCEPT !.pc = "drafting"])
             ELSE IF view.raised THEN Caught(p, got)
                  ELSE Finish(p, got, view)
     /\ UNCHANGED <<Config, now, started, Lab>>

\* the awaited generateResponse(body, subject, sender, sentiment, priority, extractedInfo) settles
ProcessEmailDraft(p) ==
  LET rec == procs[p]
  IN /\ rec.op = "processEmail" /\ rec.pc = "drafting"
     /\ \E u \in PipelineResponse :
          LET g == generateResponse(u, rec.sentiment[1].sentiment, rec.priority[1].priority)
          IN IF g.raised THEN Caught(p, [rec EXCEPT !.ai = rec.ai + 1])
             ELSE Step(p, [rec EXCEPT !.pc = "drafted", !.draft = Some(g.val),
                                      !.ai = rec.ai + 1])
     /\ UNCHANGED <<Config, Storage, now, started, Lab>>

\* a draft filed under the email stored last, whoever stored it
ResponseDataForLatestEmail(emailId, draft) ==
  [emailId |-> IF emails = <<>> THEN emailId ELSE emails[Len(emails)].id,
   generatedResponse |-> draft.response,
   confidence |-> draft.confidence, isEdited |-> FALSE,
   finalResponse |-> Null, sentAt |-> Null]

\* emailResponseData of processEmail and generateResponseForEmail
\* (confidence: Math.round(responseData.confidence * 100))
emailResponseData(emailId, draft) ==
  [emailId |-> emailId, generatedResponse |-> draft.response,
   confidence |-> draft.confidence, isEdited |-> FALSE,
   finalResponse |-> Null, sentAt |-> Null]

\* storage.createEmailResponse(emailResponseData), then the return. email.js
\* returns the stored response's text, part_012 the text the AI client gave
ProcessEmailRespond(p) ==
  LET rec == procs[p]
      r == createEmailResponse(emailResponseData(rec.email[1].id, rec.draft[1]))
      text == IF svc = EmailJs THEN r.val.generatedResponse ELSE rec.draft[1].response
      got == [rec EXCEPT !.created = rec.created + 1]
      view == ProcessedView(rec.email[1], Some(text))
  IN /\ rec.op = "processEmail" /\ rec.pc = "drafted"
     /\ Apply(r.st)
     /\ IF r.raised THEN Caught(p, rec)
        ELSE IF view.raised THEN Caught(p, got)
             ELSE Finish(p, got, view)
     /\ UNCHANGED <<Config, now, started, Lab>>

\* part_012's catch block: storage.createEmail(basicEmailData) and a view without a response
ProcessEmailCatch(p) ==
  LET rec == procs[p]
      r == createEmail(basicEmailData(rec))
      view == ProcessedView(r.val, Null)
  IN /\ rec.op = "processEmail" /\ rec.pc = "catch"
     /\ svc = Part012
     /\ Apply(r.st)
     /\ IF r.raised \/ view.raised
        THEN Finish(p, rec, Throw)
        ELSE Finish(p, [rec EXCEPT !.email = Some(r.val)], view)
     /\ UNCHANGED <<Config, now, started, Lab>>

(* generateResponseForEmail(emailId)  (part_012 calls it generateResponse) *)

\* what the invocation that completed last gave, when it was the same call on
\* the same id and nothing overlapped with it
Previous(op, id) ==
  IF \E q \in LastAlone : procs[q].op = op /\ procs[q].emailId = id
  THEN LET last == procs[CHOOSE q \in LastAlone : TRUE]
       IN Some([ret |-> last.ret[1], ai |-> last.ai, created |-> last.created,
                before |-> last.before])
  ELSE Null

\* an id that no email and no response has
AbsentId == Str(99)

GenerateStart(p) ==
  /\ RoomForResponse
  /\ \E id \in Targets \cup {AbsentId} :
       Begin(p, [Idle EXCEPT !.op = "generateResponseForEmail", !.pc = "getEmail",
                             !.emailId = id,
                             !.prev = Previous("generateResponseForEmail", id)])
  /\ UNCHANGED <<Config, Storage, now, started, Lab>>

\* the catch block: email.js returns the fallback text, part_012 returns null
GenerateCaught(p, rec) ==
  Finish(p, rec, Return(IF svc = EmailJs THEN Some(FallbackResponse) ELSE Null))

\* what the method returns for a response record: email.js its text, part_012 the record
GenerateGives(p, rec, response) ==
  Finish(p, rec, Return(Some(IF svc = EmailJs THEN response.generatedResponse
                             ELSE response)))

\* const email = await storage.getEmailById(emailId); if (!email) ...
GenerateGetEmail(p) ==
  LET rec == procs[p]
      r == getEmailById(rec.emailId)
  IN /\ rec.op = "generateResponseForEmail" /\ rec.pc = "getEmail"
     /\ IF r.raised \/ IsNull(r.val) THEN GenerateCaught(p, rec)
        ELSE Step(p, [rec EXCEPT !.pc = "getExisting", !.email = r.val])
     /\ UNCHANGED <<Config, Storage, now, started, Lab>>

\* const existingResponses = await storage.getResponsesByEmailId(emailId)
GenerateGetExisting(p) ==
  LET rec == procs[p]
      r == getResponsesByEmailId(rec.emailId)
  IN /\ rec.op = "generateResponseForEmail" /\ rec.pc = "getExisting"
     /\ IF r.raised THEN GenerateCaught(p, rec)
        ELSE IF Len(r.val) > 0 THEN GenerateGives(p, rec, r.val[1])
        ELSE Step(p, [rec EXCEPT !.pc = "generate"])
     /\ UNCHANGED <<Config, Storage, now, started, Lab>>

\* const responseData = await generateResponse(...)
GenerateDraft(p) ==
  LET rec == procs[p]
  IN /\ rec.op = "generateResponseForEmail" /\ rec.pc = "generate"
     /\ \E u \in PipelineResponse :
          LET g == generateResponse(u, rec.email[1].sentiment, rec.email[1].priority)
          IN IF g.raised THEN GenerateCaught(p, [rec EXCEPT !.ai = rec.ai + 1])
             ELSE Step(p, [rec EXCEPT !.pc = "create", !.draft = Some(g.val),
                                      !.ai = rec.ai + 1])
     /\ UNCHANGED <<Config, Storage, now, started, Lab>>

\* emailId of emailResponseData: email.js `email.id || parseInt(emailId)`,
\* part_012 `emailId`
GenerateEmailId(rec) ==
  IF svc = Part012 THEN rec.emailId
  ELSE IF rec.email[1].id = Undefined THEN parseInt(rec.emailId)
  ELSE rec.email[1].id

\* const response = await storage.createEmailResponse(emailResponseData)
GenerateCreate(p) ==
  LET rec == procs[p]
      r == createEmailResponse(emailResponseData(GenerateEmailId(rec), rec.draft[1]))
  IN /\ rec.op = "generateResponseForEmail" /\ rec.pc = "create"
     /\ Apply(r.st)
     /\ IF r.raised THEN GenerateCaught(p, rec)
        ELSE GenerateGives(p, [rec EXCEPT !.created = rec.created + 1], r.val)
     /\ UNCHANGED <<Config, now, started, Lab>>

(* sendResponse(emailId, finalResponse) of server/services/email.js *)

SendStart(p) ==
  /\ svc = Part012 => RoomForResponse
  /\ \E id \in Targets, text \in FinalTexts :
       Begin(p, [Idle EXCEPT !.op = "sendResponse",
                             !.pc = IF svc = EmailJs THEN "getResponses" ELSE "getEmail",
                             !.emailId = id, !.finalResponse = text])
  /\ UNCHANGED <<Config, Storage, now, started, Lab>>

\* const responses = await storage.getResponsesByEmailId(emailId);
\* if (responses.length === 0) throw
SendGetResponses(p) ==
  LET rec == procs[p]
      r == getResponsesByEmailId(rec.emailId)
  IN /\ svc = EmailJs
     /\ rec.op = "sendResponse" /\ rec.pc = "getResponses"
     /\ IF r.raised \/ Len(r.val) = 0 THEN Finish(p, rec, Throw)
        ELSE Step(p, [rec EXCEPT !.pc = "update", !.existing = Some(r.val[1])])
     /\ UNCHANGED <<Config, Storage, now, started, Lab>>

\* await storage.updateEmailResponse(response.id.toString(), {finalResponse,
\* sentAt: new Date(), isEdited: finalResponse !== response.generatedResponse})
SendUpdate(p) ==
  LET rec == procs[p]
      response == rec.existing[1]
      r == updateEmailResponse(toString(response.id),
             [finalResponse |-> Some(rec.finalResponse), sentAt |-> Some(now),
              isEdited |-> rec.finalResponse # response.generatedResponse])
  IN /\ svc = EmailJs
     /\ rec.op = "sendResponse" /\ rec.pc = "update"
     /\ Apply(r.st)
     /\ IF r.raised THEN Finish(p, rec, Throw) ELSE Finish(p, rec, Return(Null))
     /\ UNCHANGED <<Config, now, started, Lab>>

(* sendResponse(emailId, responseText) of unnamed/part_012: the whole body is
   inside try { } catch { return null } *)

SendVariantGetEmail(p) ==
  LET rec == procs[p]
      r == getEmailById(rec.emailId)
  IN /\ svc = Part012
     /\ rec.op = "sendResponse" /\ rec.pc = "getEmail"
     /\ IF r.raised \/ IsNull(r.val) THEN Finish(p, rec, Return(Null))
        ELSE Step(p, [rec EXCEPT !.pc = "getResponses", !.email = r.val])
     /\ UNCHANGED <<Config, Storage, now, started, Lab>>

SendVariantGetResponses(p) ==
  LET rec == procs[p]
      r == getResponsesByEmailId(rec.emailId)
  IN /\ svc = Part012
     /\ rec.op = "sendResponse" /\ rec.pc = "getResponses"
     /\ IF r.raised THEN Finish(p, rec, Return(Null))
        ELSE IF Len(r.val) > 0
             THEN Step(p, [rec EXCEPT !.pc = "update", !.existing = Some(r.val[1])])
             ELSE Step(p, [rec EXCEPT !.pc = "create"])
     /\ UNCHANGED <<Config, Storage, now, started, Lab>>

\* response = await storage.updateEmailResponse(existingResponses[0].id,
\*   {finalResponse: responseText, sentAt: new Date(), isEdited: true})
SendVariantUpdate(p) ==
  LET rec == procs[p]
      r == updateEmailResponse(rec.existing[1].id,
             [finalResponse |-> Some(rec.finalResponse), sentAt |-> Some(now),
              isEdited |-> TRUE])
  IN /\ svc = Part012
     /\ rec.op = "sendResponse" /\ rec.pc = "update"
     /\ Apply(r.st)
     /\ IF r.raised THEN Finish(p, rec, Return(Null))
        ELSE Step(p, [rec EXCEPT !.pc = "markProcessed", !.draft = Some(r.val)])
     /\ UNCHANGED <<Config, now, started, Lab>>

\* response = await storage.createEmailResponse({emailId, generatedResponse:
\*   responseText, finalResponse: responseText, confidence: 95, isEdited: false,
\*   sentAt: new Date()})
SendVariantCreate(p) ==
  LET rec == procs[p]
      r == createEmailResponse(
             [emailId |-> rec.emailId, generatedResponse |-> rec.finalResponse,
              finalResponse |-> Some(rec.finalResponse), confidence |-> 95,
              isEdited |-> FALSE, sentAt |-> Some(now)])
  IN /\ svc = Part012
     /\ rec.op = "sendResponse" /\ rec.pc = "create"
     /\ Apply(r.st)
     /\ IF r.raised THEN Finish(p, rec, Return(Null))
        ELSE Step(p, [rec EXCEPT !.pc = "markProcessed", !.draft = Some(r.val),
                                 !.created = rec.created + 1])
     /\ UNCHANGED <<Config, now, started, Lab>>

\* await storage.updateEmail(emailId, { isProcessed: true }); return response
SendVariantMarkProcessed(p) ==
  LET rec == procs[p]
      r == updateEmail(rec.emailId, [isProcessed |-> TRUE])
  IN /\ svc = Part012
     /\ rec.op = "sendResponse" /\ rec.pc = "markProcessed"
     /\ Apply(r.st)
     /\ IF r.raised THEN Finish(p, rec, Return(Null))
        ELSE Finish(p, rec, Return(rec.draft))
     /\ UNCHANGED <<Config, now, started, Lab>>

\* time passes
Tick ==
  /\ now < MaxClock
  /\ now' = now + 1
  /\ UNCHANGED <<Config, Storage, procs, started, Lab>>

-----------------------------------------------------------------------------
(* The pipeline: requests served by one EmailService over one storage *)

\* construction of the storage and an idle server
Constructed ==
  /\ emails = IF store = InMemory THEN getSampleEmails ELSE <<>>
  /\ responses = <<>>
  /\ mockResponses = <<>>
  /\ nextEmailId = IF store = InMemory THEN 6 ELSE 1
  /\ nextResponseId = 1
  /\ now = 0
  /\ procs = [p \in Procs |-> Idle]
  /\ started = 0

\* requests are served one after the other, by either service over any storage
Init ==
  /\ svc \in {EmailJs, Part012}
  /\ store \in {InMemory, Mongo, Drizzle, MongoNoFallback}
  /\ dbUp \in BOOLEAN
  /\ store = InMemory => dbUp
  /\ width = 1
  /\ Constructed
  /\ ai = Null
  /\ rd = Null

\* requests overlap
InitOverlap ==
  /\ svc = EmailJs
  /\ store = Drizzle
  /\ dbUp = TRUE
  /\ width = MaxProcs
  /\ Constructed
  /\ ai = Null
  /\ rd = Null

Next ==
  \/ Tick
  \/ \E p \in Procs :
       \/ ProcessEmailStart(p)
       \/ SentimentSettles(p)
       \/ PrioritySettles(p)
       \/ InformationSettles(p)
       \/ ProcessEmailCreate(p)
       \/ ProcessEmailDraft(p)
       \/ ProcessEmailRespond(p)
       \/ ProcessEmailCatch(p)
       \/ GenerateStart(p)
       \/ GenerateGetEmail(p)
       \/ GenerateGetExisting(p)
       \/ GenerateDraft(p)
       \/ GenerateCreate(p)
       \/ SendStart(p)
       \/ SendGetResponses(p)
       \/ SendUpdate(p)
       \/ SendVariantGetEmail(p)
       \/ SendVariantGetResponses(p)
       \/ SendVariantUpdate(p)
       \/ SendVariantCreate(p)
       \/ SendVariantMarkProcessed(p)

Spec == Init /\ [][Next]_vars

\* the requests server/services/email.js serves
NextOverlap ==
  \/ Tick
  \/ \E p \in Procs :
       \/ ProcessEmailStart(p)
       \/ SentimentSettles(p)
       \/ PrioritySettles(p)
       \/ InformationSettles(p)
       \/ ProcessEmailCreate(p)
       \/ ProcessEmailDraft(p)
       \/ ProcessEmailRespond(p)
       \/ GenerateStart(p)
       \/ GenerateGetEmail(p)
       \/ GenerateGetExisting(p)
       \/ GenerateDraft(p)
       \/ GenerateCreate(p)
       \/ SendStart(p)
       \/ SendGetResponses(p)
       \/ SendUpdate(p)

SpecOverlap == InitOverlap /\ [][NextOverlap]_vars

(* POST /api/emails/bulk-process: Promise.all over emails.map(processEmail), so
   the processEmail invocations of one request are all in flight together *)

BulkProcessStart(p) ==
  /\ started < MaxBulk
  /\ \E receivedAt \in ReceivedAts :
       Begin(p, [Idle EXCEPT !.op = "processEmail", !.pc = "analyzing",
                             !.receivedAt = receivedAt])
  /\ started' = started + 1
  /\ UNCHANGED <<Config, Storage, now, Lab>>

\* server/services/email.js over the in-memory storage and over storage.js
InitBulk ==
  /\ svc = EmailJs
  /\ store \in {InMemory, Mongo}
  /\ dbUp \in BOOLEAN
  /\ store = InMemory => dbUp
  /\ width = MaxProcs
  /\ Constructed
  /\ ai = Null
  /\ rd = Null

NextBulk ==
  \/ Tick
  \/ \E p \in Procs :
       \/ BulkProcessStart(p)
       \/ SentimentSettles(p)
       \/ PrioritySettles(p)
       \/ InformationSettles(p)
       \/ ProcessEmailCreate(p)
       \/ ProcessEmailDraft(p)
       \/ ProcessEmailRespond(p)

SpecBulk == InitBulk /\ [][NextBulk]_vars

(* Overlapping requests of POST /api/emails/:id/generate-response: the client
   mutation of EmailCard fires one request per click, and two of them can be
   suspended at storage or AI calls at the same time *)

NextGenerate ==
  \/ Tick
  \/ \E p \in Procs :
       \/ GenerateStart(p)
       \/ GenerateGetEmail(p)
       \/ GenerateGetExisting(p)
       \/ GenerateDraft(p)
       \/ GenerateCreate(p)

SpecGenerate == InitBulk /\ [][NextGenerate]_vars

-----------------------------------------------------------------------------
(* The AI client on its own: each function applied to every upstream outcome *)

Pipeline == <<Config, Storage, now, procs, started>>

InitAI ==
  /\ svc = EmailJs /\ store = InMemory /\ dbUp = TRUE /\ width = 1
  /\ Constructed
  /\ ai = [op |-> "none"]
  /\ rd = Null

CallAnalyzeSentiment ==
  /\ \E u \in SentimentUpstream :
       ai' = [op |-> "analyzeSentiment", upstream |-> u, out |-> analyzeSentiment(u)]
  /\ UNCHANGED <<Pipeline, rd>>

CallAnalyzePriority ==
  /\ \E u \in PriorityUpstream :
       ai' = [op |-> "analyzePriority", upstream |-> u, out |-> analyzePriority(u)]
  /\ UNCHANGED <<Pipeline, rd>>

CallExtractInformation ==
  /\ \E u \in InformationUpstream :
       ai' = [op |-> "extractInformation", upstream |-> u, out |-> extractInformation(u)]
  /\ UNCHANGED <<Pipeline, rd>>

CallGenerateResponse ==
  /\ \E u \in ResponseUpstream, sentiment \in {"negative", "neutral"},
        priority \in {"urgent", "normal"} :
       ai' = [op |-> "generateResponse", upstream |-> u, sentiment |-> sentiment,
              priority |-> priority, out |-> generateResponse(u, sentiment, priority)]
  /\ UNCHANGED <<Pipeline, rd>>

NextAI ==
  \/ CallAnalyzeSentiment
  \/ CallAnalyzePriority
  \/ CallExtractInformation
  \/ CallGenerateResponse

SpecAI == InitAI /\ [][NextAI]_vars

-----------------------------------------------------------------------------
(* The storage on its own: the methods of DatabaseStorage called directly, as
   the routes and the services call them, each call recorded with what it gave *)

\* the InsertEmail values given to createEmail
EmailInputs ==
  {[sender |-> <<"a">>, subject |-> <<"A", "b">>, body |-> <<"b">>, receivedAt |-> -1,
    priority |-> "urgent", sentiment |-> "negative", category |-> "Technical Issue",
    isProcessed |-> TRUE],
   [sender |-> <<"b">>, subject |-> <<"b">>, body |-> <<"a", "a">>, receivedAt |-> -3,
    priority |-> "normal", sentiment |-> "positive", category |-> "",
    isProcessed |-> TRUE]}

\* the email ids given to the storage: seed 1 and the stored emails, in the
\* string form of the URL
StoredIds == {Str(1)} \cup {toString(emails[i].id) : i \in 1..Len(emails)}

\* the response ids given to updateEmailResponse, in string form
ResponseIds == {toString(r.id) : r \in AllResponses}

Searches == {<<"A">>, <<"b", "b">>}
Pages == {<<2, 0>>, <<2, 2>>, <<2, 4>>}

Recorded(op, r) == rd' = [op |-> op, raised |-> r.raised, val |-> r.val]

\* a method that changes the storage
Write(op, r) ==
  /\ Apply(r.st)
  /\ Recorded(op, r)
  /\ UNCHANGED <<Config, now, procs, ai>>

\* what a method that only reads leaves alone
Unwritten == <<Config, Storage, now, procs, started, ai>>

\* a write, recorded with the id it was given and whether it changed the storage
WriteUpdate(op, id, r) ==
  /\ Apply(r.st)
  /\ rd' = [op |-> op, arg |-> id, raised |-> r.raised, val |-> r.val,
            wrote |-> r.st # Same]
  /\ UNCHANGED <<Config, now, procs, ai>>

CallCreateEmail ==
  /\ started < MaxStored
  /\ started' = started + 1
  /\ \E data \in EmailInputs : Write("createEmail", createEmail(data))

CallCreateEmailResponse ==
  /\ Len(responses) + Cardinality(DOMAIN mockResponses) < MaxResponses
  /\ UNCHANGED started
  /\ \E id \in StoredIds, sentAt \in {Null, Some(now)} :
       Write("createEmailResponse",
             createEmailResponse([emailId |-> BackendKey(parseInt(id)),
                                  generatedResponse |-> "draftA", confidence |-> 90,
                                  isEdited |-> FALSE,
                                  finalResponse |-> IF IsNull(sentAt) THEN Null
                                                    ELSE Some("draftA"),
                                  sentAt |-> sentAt]))

CallUpdateEmail ==
  /\ UNCHANGED started
  /\ \E id \in {Str(1), AbsentId} :
       WriteUpdate("updateEmail", id, updateEmail(id, [isProcessed |-> TRUE]))

CallUpdateEmailResponse ==
  /\ UNCHANGED started
  /\ \E id \in ResponseIds \cup {AbsentId} :
       WriteUpdate("updateEmailResponse", id,
                   updateEmailResponse(id, [finalResponse |-> Some("edited"),
                                            sentAt |-> Some(now), isEdited |-> TRUE]))

CallGetEmails ==
  /\ \E page \in Pages : Recorded("getEmails", getEmails(page[1], page[2]))
  /\ UNCHANGED Unwritten

\* the service's list read, recorded with the page that was asked for
CallGetEmailsWithResponses ==
  /\ \E page \in Pages :
       rd' = [op |-> "getEmailsWithResponses", arg |-> page, raised |-> FALSE,
              val |-> getEmailsWithResponses(page[1], page[2])]
  /\ UNCHANGED Unwritten

CallGetEmailById ==
  /\ \E id \in StoredIds : Recorded("getEmailById", getEmailById(id))
  /\ UNCHANGED Unwritten

CallGetEmailsByPriority ==
  /\ \E priority \in {"urgent", "normal"} :
       Recorded("getEmailsByPriority", getEmailsByPriority(priority))
  /\ UNCHANGED Unwritten

CallGetEmailsBySentiment ==
  /\ \E sentiment \in {"positive", "negative", "neutral"} :
       Recorded("getEmailsBySentiment", getEmailsBySentiment(sentiment))
  /\ UNCHANGED Unwritten

\* a search, recorded with its query
CallSearchEmails ==
  /\ \E query \in Searches :
       LET r == searchEmails(query)
       IN rd' = [op |-> "searchEmails", arg |-> query, raised |-> r.raised,
                 val |-> r.val]
  /\ UNCHANGED Unwritten

CallGetResponsesByEmailId ==
  /\ \E id \in StoredIds : Recorded("getResponsesByEmailId", getResponsesByEmailId(id))
  /\ UNCHANGED Unwritten

CallGetEmailStats ==
  /\ Recorded("getEmailStats", getEmailStats)
  /\ UNCHANGED Unwritten

CallGetSentimentDistribution ==
  /\ Recorded("getSentimentDistribution", getSentimentDistribution)
  /\ UNCHANGED Unwritten

CallGetCategoryBreakdown ==
  /\ Recorded("getCategoryBreakdown", getCategoryBreakdown)
  /\ UNCHANGED Unwritten

InitStorage ==
  /\ svc = EmailJs
  /\ store \in {InMemory, Mongo, Drizzle, MongoNoFallback}
  /\ dbUp \in BOOLEAN
  /\ store = InMemory => dbUp
  /\ width = 1
  /\ Constructed
  /\ ai = Null
  /\ rd = [op |-> "none"]

NextStorage ==
  \/ CallCreateEmail
  \/ CallCreateEmailResponse
  \/ CallUpdateEmail
  \/ CallUpdateEmailResponse
  \/ CallGetEmails
  \/ CallGetEmailsWithResponses
  \/ CallGetEmailById
  \/ CallGetEmailsByPriority
  \/ CallGetEmailsBySentiment
  \/ CallSearchEmails
  \/ CallGetResponsesByEmailId
  \/ CallGetEmailStats
  \/ CallGetSentimentDistribution
  \/ CallGetCategoryBreakdown

SpecStorage == InitStorage /\ [][NextStorage]_vars

-----------------------------------------------------------------------------
(* Properties *)

\* the processEmail invocations that have returned a view
Returned == {p \in Procs : /\ procs[p].op = "processEmail" /\ procs[p].pc = "done"
                           /\ ~procs[p].ret[1].raised}

\* the emails processEmail has persisted: everything in the table but the seeds
Persisted ==
  {emails[i] : i \in {j \in 1..Len(emails) : store = InMemory => j > Len(getSampleEmails)}}

WellFormed(email) ==
  /\ email.isProcessed = TRUE
  /\ email.priority \in {"urgent", "normal"}
  /\ email.sentiment \in {"positive", "negative", "neutral"}

\* C1: every Email that processEmail persists or returns has isProcessed = true,
\* priority in {urgent, normal} and sentiment in {positive, negative, neutral},
\* whatever the three AI calls gave (well-formed, field missing, value outside
\* the enumeration, error)
C1_ProcessedEmailsWellFormed ==
  /\ \A e \in Persisted : WellFormed(e)
  /\ \A p \in Returned : WellFormed(procs[p].email[1])

\* C2: right after processEmail returns a view, hasResponse is true iff the
\* analysed priority is "urgent", and storage holds exactly one response for the
\* new email when urgent and none otherwise (server/services/email.js over the
\* in-memory storage of server/storage.ts)
C2_HasResponseIffUrgent ==
  \A p \in Returned :
    svc = EmailJs /\ store = InMemory /\ procs[p].alone =>
      LET view == procs[p].ret[1].val
          urgent == procs[p].priority[1].priority = "urgent"
      IN /\ view.hasResponse <=> urgent
         /\ Cardinality(ResponsesOf(toString(view.id))) = IF urgent THEN 1 ELSE 0

\* C2 happens: an urgent email was processed over the in-memory storage and its
\* view reports the one response stored for it
C2_Witness ==
  \E p \in Returned :
    /\ svc = EmailJs /\ store = InMemory /\ procs[p].alone
    /\ procs[p].priority[1].priority = "urgent"
    /\ procs[p].ret[1].val.hasResponse
    /\ Cardinality(ResponsesOf(toString(procs[p].ret[1].val.id))) = 1

\* a generateResponseForEmail that returned after an identical call on the same
\* existing email, with nothing overlapping either call and nothing in between
Repeated ==
  {p \in Procs : /\ procs[p].op = "generateResponseForEmail" /\ procs[p].pc = "done"
                 /\ procs[p].alone /\ ~IsNull(procs[p].prev) /\ ~IsNull(procs[p].email)}

\* C3: two successive calls of generateResponseForEmail(id) for an existing email
\* return the same string, invoke the AI client at most once between them and
\* leave exactly one response for the email; when a response existed before the
\* first call, neither call invokes the AI client or creates a record
\* (server/services/email.js over storage.ts, storage.js and part_010; part_009
\* files a mock response under a key its lookup never asks for)
C3_GenerateIsIdempotent ==
  \A p \in Repeated :
    svc = EmailJs /\ store # MongoNoFallback =>
      LET second == procs[p]
          first == second.prev[1]
      IN /\ second.ret[1] = first.ret
         /\ first.ai + second.ai <= 1
         /\ Cardinality(ResponsesOf(second.emailId)) = 1
         /\ first.before >= 1 =>
              first.ai + second.ai = 0 /\ first.created + second.created = 0

\* C3 happens: over the in-memory storage the first call drafted the response
\* through the AI client and the second call returned the stored one
C3_Witness ==
  \E p \in Repeated :
    /\ svc = EmailJs /\ store = InMemory
    /\ procs[p].prev[1].before = 0 /\ procs[p].prev[1].ai = 1
    /\ procs[p].prev[1].created = 1
    /\ procs[p].ai = 0 /\ procs[p].created = 0
    /\ procs[p].ret[1] = procs[p].prev[1].ret

\* C4: analyzeSentiment, analyzePriority, extractInformation and generateResponse
\* return a value for every upstream outcome, and when the upstream call or the
\* parse raises the value is the fixed default: neutral / 0.5, normal / 0.5 / no
\* keywords, empty lists with the default category, the canned response with 0.5
C4_ClientNeverRaises ==
  ai.op # "none" =>
    /\ ~ai.out.raised
    /\ ai.upstream.kind # "json" =>
         /\ ai.op = "analyzeSentiment" =>
              ai.out.val.sentiment = "neutral" /\ ai.out.val.confidence = 50
         /\ ai.op = "analyzePriority" =>
              /\ ai.out.val.priority = "normal" /\ ai.out.val.confidence = 50
              /\ ai.out.val.keywords = ""
         /\ ai.op = "extractInformation" =>
              ai.out.val.phoneNumbers = "" /\ ai.out.val.category = "General Inquiry"
         /\ ai.op = "generateResponse" =>
              ai.out.val.response = CannedResponse /\ ai.out.val.confidence = 50

\* C4 happens: the provider call failed under generateResponse and the caller got
\* the canned response
C4_Witness ==
  /\ ai.op = "generateResponse"
  /\ ai.upstream.kind = "error"
  /\ ~ai.out.raised
  /\ ai.out.val.response = CannedResponse

\* the sendResponse invocations that have ended with nothing overlapping them
Sent == {p \in Procs : /\ procs[p].op = "sendResponse" /\ procs[p].pc = "done"
                       /\ procs[p].alone}

\* an error outcome: email.js raises, part_012 returns null
Failed(outcome) == outcome.raised \/ IsNull(outcome.val)

\* C5: in both EmailService implementations, sendResponse for an email that has
\* no EmailResponse ends with an error outcome and creates no EmailResponse
C5_SendWithoutResponseFails ==
  \A p \in Sent :
    procs[p].before = 0 =>
      /\ Failed(procs[p].ret[1])
      /\ procs[p].created = 0
      /\ ResponsesOf(procs[p].emailId) = {}

\* C6: every stored EmailResponse that was sent has isEdited = (finalResponse
\* differs from generatedResponse), and every unsent one has isEdited = false
\* and no finalResponse, with either EmailService implementation
C6_IsEditedMatchesTexts ==
  \A r \in AllResponses :
    IF IsNull(r.sentAt)
    THEN r.isEdited = FALSE /\ IsNull(r.finalResponse)
    ELSE r.isEdited = (r.finalResponse # Some(r.generatedResponse))

\* C7: a successful sendResponse of server/services/email.js raises
\* getEmailStats().resolvedEmails by exactly 1 when the email had no sent response
\* and leaves it unchanged otherwise, over storage.ts and over storage.js on its
\* backend path and its fallback path
C7_ResolvedGrowsOncePerEmail ==
  \A p \in Sent :
    (svc = EmailJs /\ store \in {InMemory, Mongo} /\ ~procs[p].ret[1].raised) =>
      getEmailStats.val.resolvedEmails =
        procs[p].resolvedBefore + (IF procs[p].sentBefore THEN 0 ELSE 1)

\* C9: in every state the requests reach, overlapping ones included,
\* getEmailStats() has pendingEmails + resolvedEmails = totalEmails,
\* 0 <= resolvedEmails <= totalEmails and urgentEmails <= totalEmails
C9_StatsAddUp ==
  LET stats == getEmailStats.val
  IN /\ stats.pendingEmails + stats.resolvedEmails = stats.totalEmails
     /\ 0 <= stats.resolvedEmails /\ stats.resolvedEmails <= stats.totalEmails
     /\ stats.pendingEmails >= 0
     /\ stats.urgentEmails <= stats.totalEmails

\* the emails that have at least one sent response
ResolvedIds == {toString(r.emailId) : r \in {x \in AllResponses : ~IsNull(x.sentAt)}}

\* C8: in every storage state, also when several responses of one email are
\* sent, getEmailStats().resolvedEmails is the number of distinct emails with a
\* sent response (wherever the figure is computed from the stored records and
\* every response is among them)
C8_ResolvedCountsDistinctEmails ==
  ((store = InMemory \/ ReadsBackend) /\ mockResponses = <<>>) =>
    getEmailStats.val.resolvedEmails = Cardinality(ResolvedIds)

\* the reads of a DatabaseStorage
ListReads == {"getEmails", "getEmailsByPriority", "getEmailsBySentiment", "searchEmails"}
Seeds == {getSampleEmails[i] : i \in 1..Len(getSampleEmails)}

\* C10: with the backend unavailable every read of a backend-backed storage
\* returns a result, the emails it lists are seed emails and its figures are
\* those of the five seeds: sentiment 40 / 40 / 20, one email per category,
\* five emails of which two urgent
C10_FallbackReadsServeSeeds ==
  (store \in Backed /\ ~dbUp /\ rd.op # "none") =>
    /\ ~rd.raised
    /\ rd.op \in ListReads => \A i \in 1..Len(rd.val) : rd.val[i] \in Seeds
    /\ rd.op = "getSentimentDistribution" =>
         rd.val = [positive |-> 40, negative |-> 40, neutral |-> 20]
    /\ rd.op = "getCategoryBreakdown" =>
         /\ Len(rd.val) = 5
         /\ \A i \in 1..Len(rd.val) : rd.val[i].count = 1
    /\ rd.op = "getEmailStats" =>
         rd.val.totalEmails = 5 /\ rd.val.urgentEmails = 2

\* C11: after sendResponse(id, text) of server/services/email.js has returned
\* for an email with one unsent response, getResponsesByEmailId(id) gives that
\* response with finalResponse = text, sentAt set and isEdited = (text differs
\* from generatedResponse), over storage.ts and over storage.js on its fallback path
C11_SendResultVisible ==
  \A p \in Sent :
    (/\ svc = EmailJs
     /\ store = InMemory \/ (store = Mongo /\ ~dbUp)
     /\ ~procs[p].ret[1].raised
     /\ procs[p].before = 1 /\ ~procs[p].sentBefore) =>
      LET r == getResponsesByEmailId(procs[p].emailId)
      IN /\ ~r.raised
         /\ Len(r.val) = 1
         /\ r.val[1].finalResponse = Some(procs[p].finalResponse)
         /\ ~IsNull(r.val[1].sentAt)
         /\ r.val[1].isEdited = (procs[p].finalResponse # r.val[1].generatedResponse)

C14_RecordFromThreeResults ==
  [][\A p \in Procs :
       (svc = EmailJs /\ procs[p].op = "processEmail") =>
         /\ (procs[p].pc = "analyzing" /\ procs'[p].pc = "analyzing") =>
              \A f \in {"sentiment", "priority", "information"} :
                ~IsNull(procs[p][f]) => procs'[p][f] = procs[p][f]
         /\ (procs[p].pc = "analyzing" /\ procs'[p].pc # "analyzing") =>
              /\ ~IsNull(procs[p].sentiment)
              /\ ~IsNull(procs[p].priority)
              /\ ~IsNull(procs[p].information)
              /\ ~IsNull(procs'[p].email)
              /\ procs'[p].email[1].priority = procs[p].priority[1].priority
              /\ procs'[p].email[1].sentiment = procs[p].sentiment[1].sentiment
              /\ procs'[p].email[1].category = Some(procs[p].information[1].category)
              /\ Len(emails') <= Len(emails) + 1
         /\ (procs[p].pc # "analyzing" /\ procs'[p].op = "processEmail"
               /\ procs'[p].pc # "analyzing") =>
              procs'[p].email = procs[p].email /\ emails' = emails
    ]_vars

\* C14 happens: the sentiment analysis failed upstream and gave its default, the
\* priority analysis gave urgent, and the stored record has both
C14_Witness ==
  \E p \in Procs :
    /\ svc = EmailJs /\ store = InMemory
    /\ procs[p].op = "processEmail" /\ procs[p].pc = "drafting"
    /\ procs[p].sentiment = Some(SentimentDefault)
    /\ procs[p].priority[1].priority = "urgent"
    /\ procs[p].email[1].priority = "urgent"
    /\ procs[p].email[1].sentiment = "neutral"
    /\ emails[Len(emails)] = procs[p].email[1]

\* C15: every EmailResponse that processEmail or generateResponseForEmail of
\* server/services/email.js creates is a draft (no sentAt, no finalResponse,
\* isEdited false) and its stored confidence is round(rawConfidence x 100), an
\* integer within 0..100, for every confidence in [0,1] the AI client returns
C15_CreatedResponsesAreDrafts ==
  svc = EmailJs =>
    \A r \in AllResponses :
      /\ r.confidence \in {Some(c) : c \in 0..100}
      /\ IsNull(r.sentAt) => (IsNull(r.finalResponse) /\ r.isEdited = FALSE)

\* C16: an EmailResponse is mutated once, when sent: no later operation of
\* server/services/email.js (a second sendResponse with another text included)
\* changes finalResponse, sentAt or isEdited of a response that has been sent,
\* and no operation removes a response
C16_SentResponseIsFrozen ==
  [][svc = EmailJs =>
       \A i \in 1..Len(responses) :
         /\ i <= Len(responses')
         /\ ~IsNull(responses[i].sentAt) =>
              /\ responses'[i].finalResponse = responses[i].finalResponse
              /\ responses'[i].sentAt = responses[i].sentAt
              /\ responses'[i].isEdited = responses[i].isEdited
    ]_vars

C18_UpdateOfAbsentIdFails ==
  (/\ store \in {InMemory, Mongo}
   /\ rd.op \in {"updateEmail", "updateEmailResponse"}
   /\ rd.arg = AbsentId) =>
     rd.raised /\ ~rd.wrote

\* C19: in the list getEmailsWithResponses(limit, offset) returns, no email that
\* is not urgent precedes an urgent one, receivedAt does not increase among the
\* emails of one priority class, hasResponse of an element is true exactly when
\* getResponsesByEmailId of that email is non-empty, and the emails are those of
\* the page getEmails(limit, offset) returns
C19_UrgentFirstPageWithResponses ==
  rd.op = "getEmailsWithResponses" =>
    LET list == rd.val
        page == getEmails(rd.arg[1], rd.arg[2]).val
        urgent(v) == v.priority = "urgent"
    IN /\ \A i, j \in 1..Len(list) :
            i < j => /\ ~(~urgent(list[i]) /\ urgent(list[j]))
                     /\ urgent(list[i]) = urgent(list[j])
                          => list[i].receivedAt >= list[j].receivedAt
       /\ \A i \in 1..Len(list) :
            list[i].hasResponse = (getResponsesByEmailId(list[i].id).val # <<>>)
       /\ Len(list) = Len(page)
       /\ {list[i].id : i \in 1..Len(list)}
            = {toString(page[i].id) : i \in 1..Len(page)}

\* a page whose emails the storage returned newest first is reordered, and one
\* of its emails has a response
C19_Witness ==
  /\ rd.op = "getEmailsWithResponses"
  /\ Len(rd.val) = 2
  /\ rd.val[1].priority = "urgent" /\ rd.val[2].priority # "urgent"
  /\ rd.val[1].receivedAt < rd.val[2].receivedAt
  /\ rd.val[1].hasResponse /\ ~rd.val[2].hasResponse

\* subject, body or sender of the email contains the query, case-insensitively
MatchesQuery(e, query) ==
  \E field \in {e.subject, e.body, e.sender} :
     includes(toLowerCase(field), toLowerCase(query))

\* C20: searchEmails(q) of storage.ts and storage.js returns exactly the stored
\* emails whose lower-cased subject, body or sender contains the lower-cased q,
\* ordered by receivedAt descending; with the backend down the emails searched
\* are the seeds and every email createEmail has accepted (here: the email that
\* the call right before the search accepted)
C20_SearchFindsExactlyTheMatches ==
  [][(store \in {InMemory, Mongo} /\ rd'.op = "searchEmails" /\ ~rd'.raised) =>
       LET found == rd'.val
           q == rd'.arg
           kept == IF store = InMemory \/ ReadsBackend THEN emails ELSE getSampleEmails
           ids == {found[i].id : i \in 1..Len(found)}
       IN /\ \A i \in 1..Len(found) : MatchesQuery(found[i], q)
          /\ \A i, j \in 1..Len(found) :
               i < j => found[i].receivedAt >= found[j].receivedAt
          /\ \A i \in 1..Len(kept) : MatchesQuery(kept[i], q) => kept[i].id \in ids
          /\ (rd.op = "createEmail" /\ ~rd.raised /\ MatchesQuery(rd.val, q))
               => rd.val.id \in ids]_vars

\* the emails a read is answered from: the stored ones, or the seeds when the
\* backend is down
EmailsServed == IF store = InMemory \/ ReadsBackend THEN emails ELSE getSampleEmails

\* r is 100 * count / total rounded to the nearest integer, halves upwards
IsRounded(r, count, total) ==
  /\ 2 * r * total <= 200 * count + total
  /\ 200 * count + total < 2 * (r + 1) * total

\* C21: getSentimentDistribution() of storage.ts and storage.js gives 0 / 0 / 0
\* when no email is stored, and otherwise for positive, negative and neutral the
\* figure round(100 * count / total), total being the number of stored emails,
\* with the backend answering and with the backend down
C21_SentimentSharesAreRounded ==
  (store \in {InMemory, Mongo} /\ rd.op = "getSentimentDistribution") =>
    LET total == Len(EmailsServed)
        n(sentiment) == Len(SelectSeq(EmailsServed, LAMBDA e : e.sentiment = sentiment))
    IN /\ ~rd.raised
       /\ total = 0 => rd.val = [positive |-> 0, negative |-> 0, neutral |-> 0]
       /\ total > 0 => /\ IsRounded(rd.val.positive, n("positive"), total)
                       /\ IsRounded(rd.val.negative, n("negative"), total)
                       /\ IsRounded(rd.val.neutral, n("neutral"), total)

\* the same figures where they are computed from the stored emails
C21_StoredSharesAreRounded == ReadsBackend \/ store = InMemory => C21_SentimentSharesAreRounded

\* C22: getCategoryBreakdown() of storage.ts and storage.js has one entry per
\* distinct non-null category of the stored emails, its count is the number of
\* stored emails of that category, the counts do not increase along the list,
\* and emails without category are in no entry; with the backend answering and
\* with the backend down
C22_OneEntryPerCategory ==
  (store \in {InMemory, Mongo} /\ rd.op = "getCategoryBreakdown") =>
    LET list == rd.val
        served == EmailsServed
        cats == {served[i].category[1] :
                   i \in {k \in 1..Len(served) : ~IsNull(served[k].category)}}
        having(c) == {i \in 1..Len(served) : served[i].category = Some(c)}
    IN /\ ~rd.raised
       /\ Len(list) = Cardinality(cats)
       /\ {list[i].category : i \in 1..Len(list)} = cats
       /\ \A i \in 1..Len(list) : list[i].count = Cardinality(having(list[i].category))
       /\ \A i, j \in 1..Len(list) : i < j => list[i].count >= list[j].count

\* the same breakdown where it is computed from the stored emails
C22_StoredBreakdown == ReadsBackend \/ store = InMemory => C22_OneEntryPerCategory

\* a step in which a creation returns an id that was not given out before
CreatesFreshId ==
  store \in {InMemory, Mongo} =>
    /\ (rd'.op = "createEmail" /\ ~rd'.raised) =>
         /\ \A i \in 1..Len(getSampleEmails) : getSampleEmails[i].id # rd'.val.id
         /\ \A i \in 1..Len(emails) : emails[i].id # rd'.val.id
         /\ (rd.op = "createEmail" /\ ~rd.raised) => rd.val.id # rd'.val.id
    /\ (rd'.op = "createEmailResponse" /\ ~rd'.raised) =>
         \A r \in AllResponses : r.id # rd'.val.id

\* C23: over storage.ts and storage.js, with the backend answering or down, the
\* id of the email createEmail returns differs from the ids of the seed emails,
\* of the emails stored before and of the email the call before it returned, and
\* the id createEmailResponse returns differs from the ids of the responses
\* stored before; also when two creations happen at the same clock value
C23_CreatedIdsAreDistinct == [][CreatesFreshId]_vars

\* C24: over storage.ts and storage.js, every response createEmailResponse has
\* stored is among those getResponsesByEmailId(idString) returns for its email,
\* whether the service gave the emailId as an integer (email.js after
\* processEmail) or as the string of the same id (part_012's generateResponse)
C24_StoredResponseIsFoundByString ==
  store \in {InMemory, Mongo} =>
    \A r \in AllResponses :
       LET found == getResponsesByEmailId(toString(r.emailId))
       IN /\ ~found.raised
          /\ \E i \in 1..Len(found.val) : found.val[i].id = r.id

\* POST /api/emails/:id/send-response of server/routes.ts: the status the handler
\* answers with, given the response text of the body and how sendResponse ended
SendResponseStatus(text, outcome) ==
  IF text = "" THEN 400
  ELSE IF outcome.raised THEN 500
  ELSE 200

\* C25: POST /api/emails/:id/send-response (routes.ts over email.js) answers 404
\* when the email has no response or is unknown, and 500 when the request fails
\* for another reason
C25_NotFoundIsAnswered404 ==
  \A p \in Sent :
    svc = EmailJs =>
      LET status == SendResponseStatus(procs[p].finalResponse, procs[p].ret[1])
      IN /\ procs[p].before = 0 => status = 404
         /\ (procs[p].before > 0 /\ procs[p].ret[1].raised) => status = 500

\* a generateResponseForEmail of email.js that has returned, nothing overlapping it
Drafted ==
  {p \in Procs : /\ procs[p].op = "generateResponseForEmail" /\ procs[p].pc = "done"
                 /\ procs[p].alone /\ svc = EmailJs}

\* C26: when generateResponseForEmail(emailId) of email.js has returned a string,
\* a response of that email whose generatedResponse is the returned string is
\* stored; no text is returned for an id that no email has
C26_ReturnedDraftIsStored ==
  \A p \in Drafted :
    LET ret == procs[p].ret[1]
    IN (~ret.raised /\ ~IsNull(ret.val)) =>
         \E r \in ResponsesOf(procs[p].emailId) : r.generatedResponse = ret.val[1]

\* two generateResponseForEmail of email.js for one email that had no response
\* when either began, both returned
DraftedTogether ==
  {pq \in Procs \X Procs :
     /\ pq[1] < pq[2] /\ svc = EmailJs
     /\ \A p \in {pq[1], pq[2]} :
          /\ procs[p].op = "generateResponseForEmail" /\ procs[p].pc = "done"
          /\ procs[p].before = 0 /\ ~IsNull(procs[p].email)
     /\ procs[pq[1]].emailId = procs[pq[2]].emailId}

\* C27: when two invocations of generateResponseForEmail for the same email,
\* which has no response, overlap, at most one EmailResponse is created for the
\* email and both return the same text
C27_OverlappingDraftsShareOneResponse ==
  \A pq \in DraftedTogether :
    /\ procs[pq[1]].created + procs[pq[2]].created <= 1
    /\ Cardinality(ResponsesOf(procs[pq[1]].emailId)) <= 1
    /\ procs[pq[1]].ret = procs[pq[2]].ret

\* a step in which the catch block of processEmail calls storage.createEmail
\* although the try block of the same invocation had an email created already
CreatesSecondEmail ==
  \E p \in Procs :
    /\ procs[p].op = "processEmail" /\ procs[p].pc = "catch"
    /\ ~IsNull(procs[p].email)
    /\ procs'[p].pc = "done"

\* C28: an invocation of processEmail, of email.js or of part_012, has at most
\* one Email record created, whatever the AI calls give and whether the backend
\* answers or not: the stored emails grow by at most one per invocation, and
\* createEmail is not called again once it has returned an email
C28_OneEmailPerInvocation ==
  [][/\ ~CreatesSecondEmail
     /\ Len(emails') - (IF store = InMemory THEN Len(getSampleEmails) ELSE 0) <= started'
    ]_vars

\* C29: over storage.ts and storage.js, with the backend answering or down, once
\* createEmail(data) has returned an email e, getEmailById(e.id) gives a record
\* with the same sender, subject, body, priority and sentiment, and getEmails
\* lists it
C29_CreatedEmailCanBeRead ==
  (store \in {InMemory, Mongo} /\ rd.op = "createEmail" /\ ~rd.raised) =>
    LET e == rd.val
        got == getEmailById(toString(e.id))
        all == getEmails(50, 0)
    IN /\ ~got.raised /\ ~IsNull(got.val)
       /\ \A f \in {"sender", "subject", "body", "priority", "sentiment"} :
            got.val[1][f] = e[f]
       /\ ~all.raised
       /\ \E i \in 1..Len(all.val) : all.val[i].id = e.id

\* the limit of the page requests GET /api/emails?limit=..&offset=.. is given
PageSize == 2

RECURSIVE PagesUpTo(_)
\* getEmailsWithResponses(limit, 0), (limit, limit), ... up to page k, one after another
PagesUpTo(k) ==
  IF k = 0 THEN <<>>
  ELSE PagesUpTo(k - 1) \o getEmailsWithResponses(PageSize, (k - 1) * PageSize)

\* C30: with no writes in between, the pages getEmailsWithResponses(limit, 0),
\* (limit, limit), (limit, 2 * limit), ... taken together hold every stored email
\* exactly once, and no email that is not urgent is on an earlier page than an
\* urgent one
C30_PagesTogetherAreUrgentFirst ==
  store \in {InMemory, Mongo} =>
    LET served == EmailsServed
        count == (Len(served) + PageSize - 1) \div PageSize
        all == PagesUpTo(count)
        pageOf(i) == (i - 1) \div PageSize
    IN /\ Len(all) = Len(served)
       /\ {all[i].id : i \in 1..Len(all)} = {toString(served[i].id) : i \in 1..Len(served)}
       /\ \A i, j \in 1..Len(all) :
            pageOf(i) < pageOf(j) =>
              ~(all[i].priority # "urgent" /\ all[j].priority = "urgent")

\* the pages taken together hold every stored email exactly once
C30_PagesHoldEveryEmailOnce ==
  LET served == EmailsServed
      all == PagesUpTo((Len(served) + PageSize - 1) \div PageSize)
  IN /\ Len(all) = Len(served)
     /\ {all[i].id : i \in 1..Len(all)} = {toString(served[i].id) : i \in 1..Len(served)}

=========================================================================
